---- MODULE Spec2Model ----
(***************************************************************************)
(* Model of the AgentGuard Python SDK (sdk/python/agentguard/__init__.py): *)
(* the AgentGuard trace/span context managers run by concurrently          *)
(* scheduled asyncio tasks on one guard object, and the policy gateway     *)
(* AgentGuard.check_tool_access on top of AgentGuardClient.pre_invoke.     *)
(*                                                                         *)
(* A task is inside a stack of context managers (frames).  Entering a      *)
(* context manager runs the generator up to its yield without suspending,  *)
(* so it is one action; leaving `span` runs without suspending as well;    *)
(* leaving `trace` suspends once, in `await self.client.ingest_trace`, so  *)
(* it is two actions (EndTrace, IngestReturns) between which other tasks   *)
(* run.  Every other coroutine is cut the same way at each request it      *)
(* awaits: one action up to the request being issued, one for the request  *)
(* ending in a response, a failure or the cancellation of the task.        *)
(***************************************************************************)
EXTENDS Integers, Sequences, FiniteSets, TLC

VARIABLES enabled, fail_open, current_trace, span_stack, traces, spans,
          now, frames, exc, phase, lastExit, requests, lastCheck,
          mw, ex, det, lastSignal, lastCall

vars == <<enabled, fail_open, current_trace, span_stack, traces, spans,
          now, frames, exc, phase, lastExit, requests, lastCheck,
          mw, ex, det, lastSignal, lastCall>>

\* The middleware wrappers, the exporter and the enricher are objects of
\* their own; the guard's methods never touch them.  Only
\* add_security_signal writes the record of its last call, and only a call
\* made on guard.client directly writes the record of the last such call.
extVars == <<mw, ex, det, lastSignal, lastCall>>

traceVars == <<current_trace, span_stack, traces, spans, now, frames, exc,
               phase, lastExit>>

----------------------------------------------------------------------------
(* Bounds: the number of concurrently scheduled tasks, the number of       *)
(* context managers and signals (traces, spans and security signals       *)
(* together) entered in a run, the number of policy checks and of calls    *)
(* made on guard.client directly in a run, and the sizes of the prompts    *)
(* and parameter dictionaries handed to the enricher.                      *)

NumTasks == 2
MaxEntries == 3
MaxChecks == 2
MaxCalls == 1
MaxPhrases == 2
MaxParams == 2

Tasks == 1..NumTasks

----------------------------------------------------------------------------
(* Values *)

\* Optional[Trace] / Optional[str] / Optional[datetime] "None"
None == 0
NoTime == -1

\* Exceptions: cls is the base class that decides `except Exception`,
\* msg is what str(e) gives.
NoExc == [cls |-> "none", name |-> "none", msg |-> ""]
RuntimeFailure == [cls |-> "Exception", name |-> "RuntimeError", msg |-> "tool failed"]
CancelledError == [cls |-> "BaseException", name |-> "CancelledError", msg |-> ""]
IndexError == [cls |-> "Exception", name |-> "IndexError", msg |-> "pop from empty list"]

ConnectError == [cls |-> "Exception", name |-> "ConnectError", msg |-> "connection refused"]
\* httpx raises some of its timeouts with an empty message.
TimeoutException == [cls |-> "Exception", name |-> "TimeoutException", msg |-> ""]
HTTPStatusError == [cls |-> "Exception", name |-> "HTTPStatusError", msg |-> "503 Service Unavailable"]
ValueError == [cls |-> "Exception", name |-> "ValueError", msg |-> "'block' is not a valid DecisionType"]
\* `await` applied to the str a plain-function kickoff returned.
TypeError == [cls |-> "Exception", name |-> "TypeError", msg |-> "object str can't be used in 'await' expression"]
\* asyncio.run called while an event loop is running in the thread.
LoopRunningError == [cls |-> "Exception", name |-> "RuntimeError", msg |-> "asyncio.run() cannot be called from a running event loop"]

\* How a traced region is left: normally, by an ordinary exception, or by
\* task cancellation.
RegionOutcomes == {NoExc, RuntimeFailure, CancelledError}

\* Mutant: `except Exception` catches nothing.
IsException_Nothing(e) == FALSE

\* `except Exception` matches
IsException(e) == e.cls = "Exception"

\* str(e)
Str(e) == e.msg

\* dict[key] = value on a dict kept as a set of <<key, value>> pairs
DictSet(d, k, v) == {p \in d : p[1] # k} \cup {<<k, v>>}

DictHas(d, k) == \E p \in d : p[1] = k

Last(s) == s[Len(s)]

Front(s) == SubSeq(s, 1, Len(s) - 1)

----------------------------------------------------------------------------
(* The wall clock: datetime.utcnow() *)

\* A clock read returns the current time, which has advanced since the
\* last read.
ClockSteps == {1}

----------------------------------------------------------------------------
(* Task-local control state *)

TraceFrame(id) == [kind |-> "trace", id |-> id]
SpanFrame(id) == [kind |-> "span", id |-> id]

\* Task t has entered a trace or a span on the guard.
Used(t) ==
  \/ \E i \in 1..Len(traces) : traces[i].task = t
  \/ \E i \in 1..Len(spans) : spans[i].task = t

\* Tasks are numbered in the order in which they first use the guard.
InOrder(t) == t = 1 \/ Used(t - 1)

Running(t) == phase[t] = "run" /\ exc[t] = NoExc

\* The innermost `async with guard.trace(...)` the task is inside, or None.
RECURSIVE InnermostTrace(_)
InnermostTrace(fs) ==
  IF fs = <<>> THEN None
  ELSE IF Last(fs).kind = "trace" THEN Last(fs).id
  ELSE InnermostTrace(Front(fs))

\* Task t can leave its innermost region with outcome e: with whatever is
\* already propagating in it, or else with an outcome of the region's own
\* body.
Leaves(t, e) == exc[t] = NoExc \/ e = exc[t]

NoExit ==
  [kind |-> "none", id |-> None, raised |-> NoExc,
   ingest |-> NoExc, propagated |-> NoExc, popped |-> None]

----------------------------------------------------------------------------
(* PolicyDecision and the pre-invoke response *)

DecisionValues == {"allow", "deny", "warn", "require_approval"}

PolicyDecision(allow, decision, reasons) ==
  [allow |-> allow, decision |-> decision, reasons |-> reasons]

\* The JSON object of a 2xx response: the keys it has and their values (the
\* value of an absent key is not read).
Payloads ==
  { [keys |-> ks, allow |-> a, decision |-> d, reasons |-> rs] :
      ks \in SUBSET {"allow", "decision", "reasons"},
      a \in BOOLEAN,
      d \in DecisionValues \cup {"block"},
      rs \in {<<>>, <<"rule-1", "rule-2">>} }

CanonicalPayload(p) ==
  /\ ("allow" \notin p.keys => p.allow = TRUE)
  /\ ("decision" \notin p.keys => p.decision = "allow")
  /\ ("reasons" \notin p.keys => p.reasons = <<>>)

NoPayload == [keys |-> {}, allow |-> TRUE, decision |-> "allow", reasons |-> <<>>]

\* What `await client.post(...)` + raise_for_status can end in: a 2xx
\* response, a failure of the request, or the cancellation of the awaiting
\* task, which raises asyncio.CancelledError at the await.
Responses ==
  { [kind |-> "ok", data |-> p] : p \in {q \in Payloads : CanonicalPayload(q)} }
  \cup { [kind |-> k, data |-> NoPayload] :
           k \in {"transport", "status", "timeout", "cancelled"} }

\* data.get(key, default)
GetAllow(data) == IF "allow" \in data.keys THEN data.allow ELSE TRUE
GetDecision(data) == IF "decision" \in data.keys THEN data.decision ELSE "allow"
GetReasons(data) == IF "reasons" \in data.keys THEN data.reasons ELSE <<>>

NoDecision == PolicyDecision(FALSE, "none", <<>>)

Returned(v) == [exc |-> NoExc, value |-> v]
Raised(e) == [exc |-> e, value |-> NoDecision]

\* What client.post (transport failure, timeout, cancellation of the task)
\* or raise_for_status (non-success status) raises for a response, lines
\* 218-219.
RequestFailure(kind) ==
  IF kind = "transport" THEN ConnectError
  ELSE IF kind = "timeout" THEN TimeoutException
  ELSE IF kind = "status" THEN HTTPStatusError
  ELSE IF kind = "cancelled" THEN CancelledError
  ELSE NoExc

\* AgentGuardClient.pre_invoke, lines 218-226.
PreInvoke(resp) ==
  IF RequestFailure(resp.kind) # NoExc THEN Raised(RequestFailure(resp.kind))
  ELSE IF GetDecision(resp.data) \notin DecisionValues THEN Raised(ValueError)
  ELSE Returned(PolicyDecision(GetAllow(resp.data), GetDecision(resp.data),
                               GetReasons(resp.data)))

\* The f-strings of lines 420 and 426.
FailOpenReason(e) ==
  "AgentGuard unavailable: " \o Str(e) \o ". Proceeding with fail-open."
FailClosedReason(e) ==
  "AgentGuard unavailable: " \o Str(e) \o ". Blocking due to fail-closed policy."

\* Mutant: the fallback ignores the mode and always proceeds.
Fallback_AlwaysOpen(failOpen, e) ==
  [allow |-> TRUE, decision |-> "warn", reasons |-> <<FailOpenReason(e)>>]

\* Mutant: the fallback ignores the mode and always blocks.
Fallback_AlwaysClosed(failOpen, e) ==
  [allow |-> FALSE, decision |-> "deny", reasons |-> <<FailClosedReason(e)>>]

\* The except branch of check_tool_access, lines 415-427.
Fallback(failOpen, e) ==
  IF failOpen
  THEN [allow |-> TRUE, decision |-> "warn", reasons |-> <<FailOpenReason(e)>>]
  ELSE [allow |-> FALSE, decision |-> "deny", reasons |-> <<FailClosedReason(e)>>]

PreInvokeRequest == 
  [endpoint |-> "/api/v1/sdk/pre-invoke", trace_id |-> None,
   status |-> "", end_time |-> NoTime]

\* Mutant: a failed request is sent once more before falling back.
FallbackRequests_Retry(r) ==
  IF r.exc # NoExc THEN <<PreInvokeRequest>> ELSE <<>>

\* The requests a check issues after client.pre_invoke has ended as r: the
\* except branch of lines 415-427 calls nothing, and nothing follows the
\* return of line 409.
FallbackRequests(r) == <<>>

NoResponse == [kind |-> "none", data |-> NoPayload]

\* add_security_signal has not been called.
NoSignalCall == [n |-> 0, task |-> None, trace |-> None, id |-> None]

NoCheck ==
  [calls |-> 0, n |-> 0, resp |-> NoResponse, sent |-> 0, exc |-> NoExc,
   fellBack |-> FALSE, result |-> NoDecision]

\* Mutant: the enabled flag is not consulted.
ShortCircuits_Never(en) == FALSE

\* Line 405: `if not self.enabled` returns before any request is made.
ShortCircuits(en) == ~en

\* AgentGuard.check_tool_access is called, lines 405-409: a disabled guard
\* returns at once (line 406); an enabled one issues the policy request and
\* the task is suspended in `await client.post` (line 218) until the request
\* ends, while other tasks run.  calls counts the calls, n those that have
\* returned or raised.
CheckToolAccess(t) ==
  /\ Running(t)
  /\ lastCheck.calls < MaxChecks
  /\ IF ShortCircuits(enabled)
     THEN /\ lastCheck' = [calls |-> lastCheck.calls + 1, n |-> lastCheck.n + 1,
                           resp |-> NoResponse, sent |-> 0,
                           exc |-> NoExc, fellBack |-> FALSE,
                           result |-> [allow |-> TRUE, decision |-> "allow",
                                       reasons |-> <<>>]]
          /\ UNCHANGED <<requests, phase>>
     ELSE /\ requests' = Append(requests, PreInvokeRequest)
          /\ phase' = [phase EXCEPT ![t] = "check"]
          /\ lastCheck' = [lastCheck EXCEPT !.calls = @ + 1]
  /\ UNCHANGED <<enabled, fail_open, current_trace, span_stack, traces, spans,
                 now, frames, exc, lastExit>>

\* The policy request of task t ends as resp: lines 219-226 and the rest of
\* check_tool_access, lines 409-427.  self.fail_open is read here, in the
\* except branch.  What `except Exception` does not catch leaves
\* check_tool_access and propagates in the task.
PreInvokeReturns(t, resp) ==
  /\ phase[t] = "check"
  /\ resp \in Responses
  /\ LET r == PreInvoke(resp)
         out == IF IsException(r.exc) THEN NoExc ELSE r.exc
     IN
     /\ requests' = requests \o FallbackRequests(r)
     /\ lastCheck' =
          [calls |-> lastCheck.calls, n |-> lastCheck.n + 1, resp |-> resp,
           sent |-> 1 + Len(FallbackRequests(r)),
           exc |-> out,
           fellBack |-> IsException(r.exc),
           result |-> IF r.exc = NoExc THEN r.value
                      ELSE IF IsException(r.exc) THEN Fallback(fail_open, r.exc)
                      ELSE NoDecision]
     /\ exc' = [exc EXCEPT ![t] = out]
     /\ phase' = [phase EXCEPT ![t] = "run"]
  /\ UNCHANGED <<enabled, fail_open, current_trace, span_stack, traces, spans,
                 now, frames, lastExit>>

----------------------------------------------------------------------------
(* AgentGuardClient.evaluate_policy and post_invoke, called on guard.client *)

EvaluateRequest ==
  [endpoint |-> "/api/v1/policies/evaluate", trace_id |-> None,
   status |-> "", end_time |-> NoTime]

PostInvokeRequest ==
  [endpoint |-> "/api/v1/sdk/post-invoke", trace_id |-> None,
   status |-> "", end_time |-> NoTime]

\* No method of guard.client has been called directly.
NoClientCall ==
  [calls |-> 0, n |-> 0, fn |-> "none", resp |-> NoResponse, exc |-> NoExc,
   value |-> NoDecision]

\* AgentGuardClient.evaluate_policy, lines 166-176.  The payloads carry no
\* violations and no eval_time_us, so these take their defaults.
EvaluatePolicyResult(resp) ==
  IF RequestFailure(resp.kind) # NoExc THEN Raised(RequestFailure(resp.kind))
  ELSE IF GetDecision(resp.data) \notin DecisionValues THEN Raised(ValueError)
  ELSE Returned(PolicyDecision(GetAllow(resp.data), GetDecision(resp.data),
                               GetReasons(resp.data)))

\* AgentGuardClient.post_invoke, lines 248-249: returns None.
PostInvokeResult(resp) ==
  IF RequestFailure(resp.kind) # NoExc THEN Raised(RequestFailure(resp.kind))
  ELSE Returned(NoDecision)

\* client.evaluate_policy is called, lines 153-166: the request is issued
\* and the task is suspended in `await client.post`.
EvaluatePolicy(t) ==
  /\ Running(t)
  /\ lastCall.calls < MaxCalls
  /\ requests' = Append(requests, EvaluateRequest)
  /\ phase' = [phase EXCEPT ![t] = "evaluate"]
  /\ lastCall' = [lastCall EXCEPT !.calls = @ + 1]
  /\ UNCHANGED <<enabled, fail_open, current_trace, span_stack, traces, spans,
                 now, frames, exc, lastExit, lastCheck, mw, ex, det, lastSignal>>

\* client.post_invoke is called, lines 237-248.
PostInvoke(t) ==
  /\ Running(t)
  /\ lastCall.calls < MaxCalls
  /\ requests' = Append(requests, PostInvokeRequest)
  /\ phase' = [phase EXCEPT ![t] = "post"]
  /\ lastCall' = [lastCall EXCEPT !.calls = @ + 1]
  /\ UNCHANGED <<enabled, fail_open, current_trace, span_stack, traces, spans,
                 now, frames, exc, lastExit, lastCheck, mw, ex, det, lastSignal>>

\* The request of a direct client call ends as resp: the method returns, or
\* raises to its caller whatever ended the request (nothing is caught).
ClientReturns(t, resp) ==
  /\ phase[t] \in {"evaluate", "post"}
  /\ resp \in Responses
  /\ LET r == IF phase[t] = "evaluate" THEN EvaluatePolicyResult(resp)
              ELSE PostInvokeResult(resp)
     IN
     /\ lastCall' =
          [calls |-> lastCall.calls, n |-> lastCall.n + 1,
           fn |-> IF phase[t] = "evaluate" THEN "evaluate_policy"
                  ELSE "post_invoke",
           resp |-> resp, exc |-> r.exc, value |-> r.value]
     /\ exc' = [exc EXCEPT ![t] = r.exc]
     /\ phase' = [phase EXCEPT ![t] = "run"]
  /\ UNCHANGED <<enabled, fail_open, current_trace, span_stack, traces, spans,
                 now, frames, lastExit, requests, lastCheck, mw, ex, det,
                 lastSignal>>

----------------------------------------------------------------------------
(* Idle values of the objects around the guard *)

\* No callback has run and no wrapped kickoff has been called.
NoCallback ==
  [n |-> 0, pc |-> "idle", tool_name |-> "", decision |-> NoDecision,
   raised |-> NoExc, tool_start_times |-> {}]

NoKickoff ==
  [pc |-> "idle", crew |-> <<>>, coroutine |-> TRUE, todo |-> <<>>,
   decisions |-> <<>>, invoked |-> 0, propagated |-> NoExc,
   callback |-> NoCallback]

\* export_trace has not been called.
NoExport ==
  [pc |-> "idle", trace |-> None, ended |-> FALSE, loop |-> "spans",
   i |-> 0, j |-> 0, sent |-> <<>>, raised |-> NoExc]

\* The enricher has not been called.
NoAnalysis ==
  [fn |-> "none", pc |-> "idle", text |-> <<>>, tool_name |-> "",
   tool_params |-> <<>>, out |-> <<>>]

----------------------------------------------------------------------------
(* AgentGuard.__init__ *)

NewGuard ==
  /\ enabled \in BOOLEAN
  /\ fail_open \in BOOLEAN
  /\ current_trace = None
  /\ span_stack = <<>>
  /\ traces = <<>>
  /\ spans = <<>>
  /\ now = 0
  /\ frames = [t \in Tasks |-> <<>>]
  /\ exc = [t \in Tasks |-> NoExc]
  /\ phase = [t \in Tasks |-> "run"]
  /\ lastExit = NoExit
  /\ requests = <<>>
  /\ lastCheck = NoCheck
  /\ lastSignal = NoSignalCall
  /\ lastCall = NoClientCall

\* A guard with nothing wrapped, exported or analysed yet.
Init ==
  /\ NewGuard
  /\ mw = NoKickoff
  /\ ex = NoExport
  /\ det = NoAnalysis

----------------------------------------------------------------------------
(* AgentGuard.trace *)

NewTrace(id, t, time) ==
  [trace_id |-> id, status |-> "running", start_time |-> time,
   end_time |-> NoTime, spans |-> <<>>, security_signals |-> <<>>,
   metadata |-> {}, task |-> t]

\* Entering the context manager: lines 324-331, up to the yield.
BeginTrace(t) ==
  /\ Running(t)
  /\ InOrder(t)
  /\ \E d \in ClockSteps :
       LET id == Len(traces) + 1 IN
       /\ now' = now + d
       /\ traces' = Append(traces, NewTrace(id, t, now'))
       /\ current_trace' = id
       /\ frames' = [frames EXCEPT ![t] = Append(@, TraceFrame(id))]
  /\ UNCHANGED <<enabled, fail_open, span_stack, spans, exc, phase, lastExit,
                 requests, lastCheck>>

\* The try/except of lines 333-339 applied to the trace object.
TraceAfterBody(tr, e) ==
  IF e = NoExc THEN [tr EXCEPT !.status = "completed"]
  ELSE IF IsException(e)
       THEN [tr EXCEPT !.status = "failed",
                       !.metadata = DictSet(@, "error", Str(e))]
       ELSE tr

\* The ingestion request as issued by ingest_trace (lines 182-195).
IngestRequest(tr) ==
  [endpoint |-> "/api/v1/observe/traces", trace_id |-> tr.trace_id,
   status |-> tr.status, end_time |-> tr.end_time]

\* What leaves the context manager once the finally block is through:
\* the exception of the region, re-raised by line 339, or nothing.  An
\* ordinary failure of ingest_trace is caught by lines 348-350.
TraceExitPropagates(e, ingest) ==
  IF IsException(ingest) \/ ingest = NoExc THEN e ELSE ingest

\* Leaving the context manager, up to the await of line 347.
EndTrace(t, e) ==
  /\ phase[t] = "run"
  /\ frames[t] # <<>>
  /\ Last(frames[t]).kind = "trace"
  /\ Leaves(t, e)
  /\ \E d \in ClockSteps :
       LET id == Last(frames[t]).id
           closed == [TraceAfterBody(traces[id], e) EXCEPT !.end_time = now + d]
       IN
       /\ now' = now + d
       /\ traces' = [traces EXCEPT ![id] = closed]
       /\ current_trace' = None
       /\ IF enabled
          THEN /\ requests' = Append(requests, IngestRequest(closed))
               /\ phase' = [phase EXCEPT ![t] = "ingest"]
               /\ exc' = [exc EXCEPT ![t] = e]
               /\ UNCHANGED <<frames, lastExit>>
          ELSE /\ frames' = [frames EXCEPT ![t] = Front(@)]
               /\ exc' = [exc EXCEPT ![t] = e]
               /\ lastExit' =
                    [kind |-> "trace", id |-> id, raised |-> e, ingest |-> NoExc,
                     propagated |-> e, popped |-> None]
               /\ UNCHANGED <<requests, phase>>
  /\ UNCHANGED <<enabled, fail_open, span_stack, spans, lastCheck>>

\* What `await self.client.ingest_trace(trace)` (line 347) can end in: the
\* outcomes of client.post + raise_for_status, or the cancellation of the
\* task while it is suspended there.
IngestOutcomes == {NoExc, ConnectError, HTTPStatusError, CancelledError}

\* ingest_trace returns or raises; lines 346-350, then the exit completes.
IngestReturns(t, r) ==
  /\ phase[t] = "ingest"
  /\ r \in IngestOutcomes
  /\ LET id == Last(frames[t]).id
         out == TraceExitPropagates(exc[t], r)
     IN
     /\ frames' = [frames EXCEPT ![t] = Front(@)]
     /\ phase' = [phase EXCEPT ![t] = "run"]
     /\ lastExit' =
          [kind |-> "trace", id |-> id, raised |-> exc[t], ingest |-> r,
           propagated |-> out, popped |-> None]
     /\ exc' = [exc EXCEPT ![t] = out]
  /\ UNCHANGED <<enabled, fail_open, current_trace, span_stack, traces, spans,
                 now, requests, lastCheck>>

----------------------------------------------------------------------------
(* AgentGuard.span *)

NewSpan(id, parent, span_type, t, scope, time) ==
  [span_id |-> id, parent_span_id |-> parent, type |-> span_type,
   status |-> "running", start_time |-> time, end_time |-> NoTime,
   attributes |-> {}, task |-> t, scope |-> scope]

\* The span on top of the stack, self._current_span_stack[-1], if any.
Top(stack) == IF stack # <<>> THEN Last(stack) ELSE None

\* Mutant: every span is created as a root.
ParentOf_Root(stack) == None

\* Lines 360-362.
ParentOf(stack) == Top(stack)

\* Entering the context manager: lines 360-375, up to the yield.
BeginSpan(t, span_type) ==
  /\ Running(t)
  /\ InOrder(t)
  /\ \E d \in ClockSteps :
       LET id == Len(spans) + 1 IN
       /\ now' = now + d
       /\ spans' = Append(spans, NewSpan(id, ParentOf(span_stack), span_type,
                                         t, InnermostTrace(frames[t]), now'))
       /\ span_stack' = Append(span_stack, id)
       /\ traces' = IF current_trace # None
                    THEN [traces EXCEPT ![current_trace].spans = Append(@, id)]
                    ELSE traces
       /\ frames' = [frames EXCEPT ![t] = Append(@, SpanFrame(id))]
  /\ UNCHANGED <<enabled, fail_open, current_trace, exc, phase, lastExit,
                 requests, lastCheck>>

\* The try/except of lines 377-383 applied to the span object.
SpanAfterBody(sp, e) ==
  IF e = NoExc THEN [sp EXCEPT !.status = "completed"]
  ELSE IF IsException(e)
       THEN [sp EXCEPT !.status = "error",
                       !.attributes = DictSet(@, "error", Str(e))]
       ELSE sp

\* Mutant: leaving a span does not pop.
StackPop_Keep(stack) == stack

\* list.pop() of line 386: removes the last element whatever it is.
StackPop(stack) == Front(stack)

\* What leaves the context manager: the region's exception re-raised by line
\* 383, unless list.pop() fails on an empty list inside the finally block.
SpanExitPropagates(e, stack) == IF stack = <<>> THEN IndexError ELSE e

\* Leaving the context manager: lines 377-386.
EndSpan(t, e) ==
  /\ phase[t] = "run"
  /\ frames[t] # <<>>
  /\ Last(frames[t]).kind = "span"
  /\ Leaves(t, e)
  /\ \E d \in ClockSteps :
       LET id == Last(frames[t]).id
           out == SpanExitPropagates(e, span_stack)
       IN
       /\ now' = now + d
       /\ spans' = [spans EXCEPT ![id] =
                      [SpanAfterBody(@, e) EXCEPT !.end_time = now + d]]
       /\ span_stack' = IF span_stack = <<>> THEN span_stack
                        ELSE StackPop(span_stack)
       /\ frames' = [frames EXCEPT ![t] = Front(@)]
       /\ exc' = [exc EXCEPT ![t] = out]
       /\ lastExit' =
            [kind |-> "span", id |-> id, raised |-> e, ingest |-> NoExc,
             propagated |-> out, popped |-> Top(span_stack)]
  /\ UNCHANGED <<enabled, fail_open, current_trace, traces, phase, requests,
                 lastCheck>>

----------------------------------------------------------------------------
(* AgentGuard.add_security_signal *)

\* All signals added so far, over all traces.
SignalCount ==
  LET RECURSIVE Sum(_)
      Sum(k) == IF k = 0 THEN 0 ELSE Len(traces[k].security_signals) + Sum(k - 1)
  IN Sum(Len(traces))

\* Lines 441-448; `scope` is the trace the calling task is inside.
NewSignal(id, signal_type, severity, t, scope) ==
  [id |-> id, type |-> signal_type, severity |-> severity,
   task |-> t, scope |-> scope]

\* Lines 438-439 and 449: the trace the signal is appended to, if any.
SignalTarget(current) == current

\* AgentGuard.add_security_signal, lines 429-449.
AddSecuritySignal(t, signal_type, severity) ==
  /\ Running(t)
  /\ InOrder(t)
  /\ LET target == SignalTarget(current_trace)
         id == SignalCount + 1
     IN
     /\ traces' = IF target = None THEN traces
                  ELSE [traces EXCEPT ![target].security_signals =
                          Append(@, NewSignal(id, signal_type, severity, t,
                                            InnermostTrace(frames[t])))]
     /\ lastSignal' = [n |-> lastSignal.n + 1, task |-> t, trace |-> target,
                       id |-> IF target = None THEN None ELSE id]
  /\ UNCHANGED <<enabled, fail_open, current_trace, span_stack, spans, now,
                 frames, exc, phase, lastExit, requests, lastCheck, mw, ex, det,
                 lastCall>>

----------------------------------------------------------------------------
(* LangChainMiddleware and CrewAIMiddleware *)

\* ', '.join(reasons)
RECURSIVE Join(_)
Join(rs) ==
  IF rs = <<>> THEN ""
  ELSE IF Len(rs) = 1 THEN rs[1]
  ELSE rs[1] \o ", " \o Join(Tail(rs))

PermissionError(msg) ==
  [cls |-> "Exception", name |-> "PermissionError", msg |-> msg]

\* The f-string of lines 499-501.
ToolBlockedText(tool_name, reasons) ==
  "Tool '" \o tool_name \o "' blocked by policy: " \o Join(reasons)

\* The f-string of lines 572-573.
CrewBlockedText(tool_name, agent_name, reasons) ==
  "Tool '" \o tool_name \o "' for agent '" \o agent_name \o "' blocked: "
    \o Join(reasons)

\* `if not decision.allow`, lines 498 and 568.
Blocks(decision) == ~decision.allow

\* The `serialized` dictionaries handed to on_tool_start: with a name or not.
Serialized ==
  {[keys |-> {"name"}, name |-> "search"], [keys |-> {"name"}, name |-> "shell"],
   [keys |-> {}, name |-> ""]}

\* serialized.get("name", "unknown"), line 490.
ToolName(serialized) ==
  IF "name" \in serialized.keys THEN serialized.name ELSE "unknown"

\* Lines 493-503 once check_tool_access has ended as `check`: what it
\* raised leaves the callback; a blocking decision raises PermissionError;
\* otherwise the start time of the tool is stored.
CallbackAfterCheck(cb, check) ==
  LET stops == check.exc # NoExc \/ Blocks(check.result) IN
  [n |-> cb.n + 1, pc |-> "idle", tool_name |-> cb.tool_name,
   decision |-> check.result,
   raised |-> IF check.exc # NoExc THEN check.exc
              ELSE IF Blocks(check.result)
              THEN PermissionError(
                     ToolBlockedText(cb.tool_name, check.result.reasons))
              ELSE NoExc,
   tool_start_times |-> IF stops THEN cb.tool_start_times
                        ELSE cb.tool_start_times \cup {cb.tool_name}]

\* AgentGuardCallback.on_tool_start is called, lines 490-493.  On a disabled
\* guard the check returns without suspending and the callback runs to its
\* end; on an enabled guard it is suspended at the policy request.
OnToolStart(serialized) ==
  /\ mw.pc = "idle"
  /\ mw.callback.pc = "idle"
  /\ CheckToolAccess(1)
  /\ LET cb == [mw.callback EXCEPT !.tool_name = ToolName(serialized)] IN
     mw' = [mw EXCEPT !.callback =
              IF ShortCircuits(enabled) THEN CallbackAfterCheck(cb, lastCheck')
              ELSE [cb EXCEPT !.pc = "check"]]
  /\ UNCHANGED <<ex, det, lastSignal, lastCall>>

\* The policy request of the callback ends: lines 493-503.
OnToolStartReturns(resp) ==
  /\ mw.callback.pc = "check"
  /\ PreInvokeReturns(1, resp)
  /\ mw' = [mw EXCEPT !.callback = CallbackAfterCheck(@, lastCheck')]
  /\ UNCHANGED <<ex, det, lastSignal, lastCall>>

\* The agents of a crew: a role and the names of its tools.
ToolLists == {<<>>, <<"search">>, <<"shell">>, <<"search", "shell">>}

Researcher(tools) == [role |-> "researcher", tools |-> tools]
Operator(tools) == [role |-> "operator", tools |-> tools]

\* The (agent, tool) pairs in the order the loops of lines 560-564 visit them.
RECURSIVE Visits(_)
Visits(agents) ==
  IF agents = <<>> THEN <<>>
  ELSE [i \in 1..Len(agents[1].tools) |->
          [agent_name |-> agents[1].role, tool_name |-> agents[1].tools[i]]]
       \o Visits(Tail(agents))

\* Crews whose pre-execution checks stay within the bound on checks.
Crews ==
  {c \in {<<>>} \cup {<<Researcher(a)>> : a \in ToolLists}
          \cup {<<Researcher(a), Operator(b)>> : a \in ToolLists, b \in ToolLists} :
     Len(Visits(c)) <= MaxChecks}

\* What the policy endpoint answers to the middleware: a failed request or a
\* complete payload that allows, denies or warns, with any allow flag.
MiddlewareResponses ==
  {r \in Responses :
     \/ r.kind # "ok"
     \/ /\ r.data.keys = {"allow", "decision", "reasons"}
        /\ r.data.decision \in {"allow", "deny", "warn"}}

\* crew.kickoff of a wrapped crew is called.  `coroutine` is what
\* asyncio.iscoroutinefunction said of the original kickoff at line 583,
\* `running_loop` whether the caller runs on an event loop, as every caller
\* that awaits a coroutine kickoff does.  A plain-function kickoff goes
\* through sync_wrapped, lines 586-587: asyncio.run refuses to start on a
\* running loop, and then nothing of wrapped_kickoff runs.  Otherwise
\* wrapped_kickoff runs lines 556-558, up to the first check.
KickoffEnter(crew, coroutine, running_loop) ==
  /\ mw.pc = "idle"
  /\ mw.callback.pc = "idle"
  /\ frames[1] = <<>>
  /\ crew \in Crews
  /\ coroutine \in BOOLEAN
  /\ running_loop \in BOOLEAN
  /\ coroutine => running_loop
  /\ IF ~coroutine /\ running_loop
     THEN /\ mw' = [mw EXCEPT !.pc = "done", !.crew = crew,
                              !.coroutine = coroutine,
                              !.propagated = LoopRunningError]
          /\ UNCHANGED <<enabled, fail_open, current_trace, span_stack, traces,
                         spans, now, frames, exc, phase, lastExit, requests,
                         lastCheck>>
     ELSE /\ BeginTrace(1)
          /\ mw' = [mw EXCEPT !.pc = "checks", !.crew = crew,
                              !.coroutine = coroutine, !.todo = Visits(crew)]
  /\ UNCHANGED <<ex, det, lastSignal, lastCall>>

\* The check of the next tool is called, line 566.  On a disabled guard it
\* returns without suspending.
KickoffCheck ==
  /\ mw.pc = "checks"
  /\ mw.todo # <<>>
  /\ CheckToolAccess(1)
  /\ mw' = IF ShortCircuits(enabled)
           THEN [mw EXCEPT !.pc = "decide",
                           !.decisions = Append(@, lastCheck'.result)]
           ELSE [mw EXCEPT !.pc = "check"]
  /\ UNCHANGED <<ex, det, lastSignal, lastCall>>

\* The policy request of the check ends, lines 566-569: a decision is
\* returned, or the cancellation leaves the traced region.
KickoffCheckReturns(resp) ==
  /\ mw.pc = "check"
  /\ PreInvokeReturns(1, resp)
  /\ mw' = IF lastCheck'.exc # NoExc THEN [mw EXCEPT !.pc = "leave"]
           ELSE [mw EXCEPT !.pc = "decide",
                           !.decisions = Append(@, lastCheck'.result)]
  /\ UNCHANGED <<ex, det, lastSignal, lastCall>>

\* Lines 570-574: a blocking decision raises inside the traced region,
\* any other goes on to the next tool.
KickoffDecide ==
  /\ mw.pc = "decide"
  /\ LET decision == Last(mw.decisions)
         visit == mw.todo[1]
     IN IF Blocks(decision)
        THEN /\ exc' = [exc EXCEPT ![1] =
                          PermissionError(
                            CrewBlockedText(visit.tool_name, visit.agent_name,
                                            decision.reasons))]
             /\ mw' = [mw EXCEPT !.pc = "leave"]
        ELSE /\ mw' = [mw EXCEPT !.pc = "checks", !.todo = Tail(@)]
             /\ UNCHANGED exc
  /\ UNCHANGED <<enabled, fail_open, current_trace, span_stack, traces, spans,
                 now, frames, phase, lastExit, requests, lastCheck, ex, det,
                 lastSignal, lastCall>>

\* Lines 577-578: all tools checked, the span is entered and the original
\* kickoff is invoked.
KickoffInvoke ==
  /\ mw.pc = "checks"
  /\ mw.todo = <<>>
  /\ BeginSpan(1, "agent")
  /\ mw' = [mw EXCEPT !.pc = "kickoff", !.invoked = @ + 1]
  /\ UNCHANGED <<ex, det, lastSignal, lastCall>>

\* What line 578 ends in.  A coroutine kickoff returns, fails, or the task
\* is cancelled while it runs.  A plain-function kickoff fails, or returns
\* an awaitable, which is awaited in the same way, or returns a value that
\* `await` cannot be applied to.
KickoffOutcomes(coroutine) ==
  IF coroutine THEN {NoExc, RuntimeFailure, CancelledError}
  ELSE {NoExc, RuntimeFailure, CancelledError, TypeError}

\* Line 578 ends and the span is left.
KickoffReturns(e) ==
  /\ mw.pc = "kickoff"
  /\ e \in KickoffOutcomes(mw.coroutine)
  /\ EndSpan(1, e)
  /\ mw' = [mw EXCEPT !.pc = "leave"]
  /\ UNCHANGED <<ex, det, lastSignal, lastCall>>

\* The trace is left with whatever is propagating, up to the ingestion.
KickoffLeave ==
  /\ mw.pc = "leave"
  /\ EndTrace(1, exc[1])
  /\ mw' = IF enabled THEN [mw EXCEPT !.pc = "ingest"]
           ELSE [mw EXCEPT !.pc = "done", !.propagated = lastExit'.propagated]
  /\ UNCHANGED <<ex, det, lastSignal, lastCall>>

\* The ingestion returns and wrapped_kickoff returns or raises.
KickoffDone(r) ==
  /\ mw.pc = "ingest"
  /\ IngestReturns(1, r)
  /\ mw' = [mw EXCEPT !.pc = "done", !.propagated = lastExit'.propagated]
  /\ UNCHANGED <<ex, det, lastSignal, lastCall>>

----------------------------------------------------------------------------
(* LangfuseExporter *)

\* export_trace is handed a Trace object of the guard and reads it, and the
\* Span and SecuritySignal objects in its lists, each time it builds a
\* request; between two requests it is suspended and the tasks using the
\* guard run.

\* The body of a request, with None in the fields it does not carry.
\* langfuse_trace, lines 775-787, posted to /api/public/traces.
LangfuseTrace(trace) ==
  [endpoint |-> "/api/public/traces", id |-> trace.trace_id, traceId |-> None,
   type |-> "", name |-> "", parentObservationId |-> None, level |-> "",
   security_signals_count |-> Len(trace.security_signals)]

\* Mutant: the parent of the span is not exported.
SpanObservation_NoParent(trace_id, span) ==
  [endpoint |-> "/api/public/observations", id |-> span.span_id,
   traceId |-> trace_id,
   type |-> IF span.type = "llm" THEN "generation" ELSE "span",
   name |-> "", parentObservationId |-> None,
   level |-> IF span.status = "error" THEN "ERROR" ELSE "DEFAULT",
   security_signals_count |-> None]

\* The payload of _export_span, lines 804-816.
SpanObservation(trace_id, span) ==
  [endpoint |-> "/api/public/observations", id |-> span.span_id,
   traceId |-> trace_id,
   type |-> IF span.type = "llm" THEN "generation" ELSE "span",
   name |-> "", parentObservationId |-> span.parent_span_id,
   level |-> IF span.status = "error" THEN "ERROR" ELSE "DEFAULT",
   security_signals_count |-> None]

\* The payload of _export_security_signal, lines 835-848.
SignalEvent(trace_id, signal) ==
  [endpoint |-> "/api/public/observations", id |-> signal.id,
   traceId |-> trace_id, type |-> "event",
   name |-> "security:" \o signal.type, parentObservationId |-> None,
   level |-> IF signal.severity \in {"critical", "high"} THEN "ERROR"
             ELSE "WARNING",
   security_signals_count |-> None]

\* What `await client.post(...)` + raise_for_status end in: the request
\* succeeds or fails, or the exporting task is cancelled at the await.
ExportOutcomes == {NoExc, ConnectError, HTTPStatusError, CancelledError}

\* export_trace goes on after an answered request, up to its next await or
\* its end (lines 793-798): the list iterator of the span loop takes the
\* next element of the list as it is now; once it has found the list
\* exhausted the signal loop runs in the same way.  e.i and e.j count the
\* elements taken so far.
Proceed(e) ==
  LET trace == traces[e.trace] IN
  IF e.loop = "spans" /\ e.i < Len(trace.spans)
  THEN [e EXCEPT !.pc = "span", !.i = @ + 1,
                 !.sent = Append(@, SpanObservation(trace.trace_id,
                                                    spans[trace.spans[e.i + 1]]))]
  ELSE IF e.j < Len(trace.security_signals)
  THEN [e EXCEPT !.pc = "signal", !.loop = "signals", !.j = @ + 1,
                 !.sent = Append(@, SignalEvent(trace.trace_id,
                                                trace.security_signals[e.j + 1]))]
  ELSE [e EXCEPT !.pc = "done", !.loop = "signals"]

\* The pending request ends as r: a failure or a cancellation leaves
\* export_trace, which catches nothing.
PostReturns(r) ==
  /\ r \in ExportOutcomes
  /\ ex' = IF r = NoExc THEN Proceed(ex)
           ELSE [ex EXCEPT !.pc = "failed", !.raised = r]
  /\ UNCHANGED <<enabled, fail_open, current_trace, span_stack, traces, spans,
                 now, frames, exc, phase, lastExit, requests, lastCheck, mw, det,
                 lastSignal, lastCall>>

\* export_trace(trace) is called, lines 772-789: the trace request is built
\* and issued.  `ended` tells whether the trace had been closed by then.
ExportTrace(tr) ==
  /\ ex.pc = "idle"
  /\ tr \in 1..Len(traces)
  /\ ex' = [pc |-> "trace", trace |-> tr,
            ended |-> traces[tr].end_time # NoTime, loop |-> "spans",
            i |-> 0, j |-> 0,
            sent |-> <<LangfuseTrace(traces[tr])>>, raised |-> NoExc]
  /\ UNCHANGED <<enabled, fail_open, current_trace, span_stack, traces, spans,
                 now, frames, exc, phase, lastExit, requests, lastCheck, mw, det,
                 lastSignal, lastCall>>

\* The trace request ends, lines 789-790.
ExportTraceReturns(r) == ex.pc = "trace" /\ PostReturns(r)

\* The request of _export_span ends, lines 824-825.
ExportSpanReturns(r) == ex.pc = "span" /\ PostReturns(r)

\* The request of _export_security_signal ends, lines 850-851.
ExportSecuritySignalReturns(r) == ex.pc = "signal" /\ PostReturns(r)

----------------------------------------------------------------------------
(* SecurityEnricher *)

\* str.lower() and str.upper() on ASCII text.
UpperCase == "ABCDEFGHIJKLMNOPQRSTUVWXYZ"
LowerCase == "abcdefghijklmnopqrstuvwxyz"

MapChar(c, from, to) ==
  IF \E i \in 1..Len(from) : SubSeq(from, i, i) = c
  THEN LET i == CHOOSE i \in 1..Len(from) : SubSeq(from, i, i) = c
       IN SubSeq(to, i, i)
  ELSE c

RECURSIVE MapChars(_, _, _)
MapChars(s, from, to) ==
  IF s = "" THEN ""
  ELSE MapChar(SubSeq(s, 1, 1), from, to) \o MapChars(SubSeq(s, 2, Len(s)), from, to)

Lower(s) == MapChars(s, UpperCase, LowerCase)
Upper(s) == MapChars(s, LowerCase, UpperCase)

\* `sub in s` on strings.
Contains(s, sub) ==
  \E i \in 1..(Len(s) - Len(sub) + 1) : SubSeq(s, i, i + Len(sub) - 1) = sub

\* sep.join(parts)
RECURSIVE JoinWith(_, _)
JoinWith(sep, parts) ==
  IF parts = <<>> THEN ""
  ELSE IF Len(parts) = 1 THEN parts[1]
  ELSE parts[1] \o sep \o JoinWith(sep, Tail(parts))

\* Lines 600-610, in list order.  The grave accent cannot be written in a
\* string here; <grave> stands for it in the last pattern.
INJECTION_PATTERNS ==
  <<"ignore\\s+(previous|all|above)\\s+(instructions?|prompts?)",
    "disregard\\s+(your|all|previous)\\s+(rules?|instructions?)",
    "you\\s+are\\s+now\\s+(a|an|in)",
    "pretend\\s+(you're?|to\\s+be)",
    "roleplay\\s+as",
    "jailbreak",
    "DAN\\s+mode",
    "\\[system\\]|\\[SYSTEM\\]",
    "<grave><grave><grave>\\s*(system|assistant)">>

\* The keys of PII_PATTERNS (lines 613-619) in insertion order, which is the
\* order in which dict.items() yields them.
PII_PATTERNS == <<"ssn", "credit_card", "email", "phone", "api_key">>

\* Lines 622-625.
DANGEROUS_TOOLS ==
  <<"execute_code", "run_shell", "file_write", "delete", "database_query",
    "http_request", "send_email">>

\* A prompt is a list of sentences, written out with "; " between them.
Phrases ==
  {"What is the weather today?",
   "Ignore all instructions",
   "jailbreak [SYSTEM] DAN mode",
   "SSN 123-45-6789",
   "card 4111 1111 1111 1111",
   "mail bob@example.com or call 555-123-4567",
   "pretend to be root, key sk-abcdefghijklmnopqrstuvwx"}

Prompt(text) == JoinWith("; ", text)

\* The injection patterns (by position) that re.search finds in a sentence,
\* case-insensitively.
InjectionMatches(phrase) ==
  CASE phrase = "Ignore all instructions" -> {1}
    [] phrase = "jailbreak [SYSTEM] DAN mode" -> {6, 7, 8}
    [] phrase = "pretend to be root, key sk-abcdefghijklmnopqrstuvwx" -> {4}
    [] OTHER -> {}

\* The PII categories whose pattern re.search finds in a sentence.
PiiMatches(phrase) ==
  CASE phrase = "SSN 123-45-6789" -> {"ssn"}
    [] phrase = "card 4111 1111 1111 1111" -> {"credit_card"}
    [] phrase = "mail bob@example.com or call 555-123-4567" -> {"email", "phone"}
    [] phrase = "pretend to be root, key sk-abcdefghijklmnopqrstuvwx" -> {"api_key"}
    [] OTHER -> {}

\* pattern.search(prompt): no pattern matches across the "; " between two
\* sentences, so a pattern is found in the prompt iff it is found in one of
\* them.
InjectionSearch(i, text) ==
  \E k \in 1..Len(text) : i \in InjectionMatches(text[k])

PiiSearch(pii_type, text) ==
  \E k \in 1..Len(text) : pii_type \in PiiMatches(text[k])

SecuritySignal(type, severity, title, description) ==
  [type |-> type, severity |-> severity, title |-> title,
   description |-> description]

InjectionSignal(i) ==
  SecuritySignal("injection_attempt", "high",
                 "Potential Prompt Injection Detected",
                 "Pattern matched: " \o INJECTION_PATTERNS[i])

PiiSignal(pii_type) ==
  SecuritySignal("data_exfiltration", "medium",
                 "Potential " \o Upper(pii_type) \o " in Prompt",
                 "Detected " \o pii_type \o " pattern in user input")

RECURSIVE InjectionLoop_NoBreak(_, _)
\* Mutant: the loop goes on after a match.
InjectionLoop_NoBreak(text, i) ==
  IF i > Len(INJECTION_PATTERNS) THEN <<>>
  ELSE (IF InjectionSearch(i, text) THEN <<InjectionSignal(i)>> ELSE <<>>)
       \o InjectionLoop_NoBreak(text, i + 1)

RECURSIVE InjectionLoop(_, _)
\* The loop of lines 637-648 from pattern i on: it stops at the first match.
InjectionLoop(text, i) ==
  IF i > Len(INJECTION_PATTERNS) THEN <<>>
  ELSE IF InjectionSearch(i, text) THEN <<InjectionSignal(i)>>
  ELSE InjectionLoop(text, i + 1)

RECURSIVE PiiLoop(_, _)
\* The loop of lines 651-660 from category k on.
PiiLoop(text, k) ==
  IF k > Len(PII_PATTERNS) THEN <<>>
  ELSE (IF PiiSearch(PII_PATTERNS[k], text)
        THEN <<PiiSignal(PII_PATTERNS[k])>> ELSE <<>>)
       \o PiiLoop(text, k + 1)

\* SecurityEnricher.analyze_prompt, lines 632-661.
analyze_prompt(text) == InjectionLoop(text, 1) \o PiiLoop(text, 1)

\* repr() of a str without quotes or backslashes in it.
Repr(s) == "'" \o s \o "'"

\* str(tool_params) for a dict of str to str, given as its items in order.
StrDict(items) ==
  "{" \o JoinWith(", ", [k \in 1..Len(items) |->
                           Repr(items[k][1]) \o ": " \o Repr(items[k][2])])
      \o "}"

ToolAbuseSignal(tool_name) ==
  SecuritySignal("tool_abuse", "medium",
                 "Sensitive Tool Usage: " \o tool_name,
                 "Tool '" \o tool_name \o "' is classified as sensitive")

EscalationSignal ==
  SecuritySignal("privilege_escalation", "high",
                 "Potential Privilege Escalation",
                 "Tool parameters contain privilege escalation indicators")

RECURSIVE DangerousLoop(_, _, _)
\* The loop of lines 693-706 from entry i on: it stops at the first match.
DangerousLoop(tool_name, tool_lower, i) ==
  IF i > Len(DANGEROUS_TOOLS) THEN <<>>
  ELSE IF Contains(tool_lower, DANGEROUS_TOOLS[i])
       THEN <<ToolAbuseSignal(tool_name)>>
  ELSE DangerousLoop(tool_name, tool_lower, i + 1)

\* Mutant: only "sudo" is looked for.
Escalates_SudoOnly(tool_params) == Contains(Lower(StrDict(tool_params)), "sudo")

\* The condition of line 709.
Escalates(tool_params) ==
  \/ Contains(Lower(StrDict(tool_params)), "sudo")
  \/ Contains(Lower(StrDict(tool_params)), "admin")

\* SecurityEnricher.analyze_tool_use, lines 682-719.
analyze_tool_use(tool_name, tool_params) ==
  DangerousLoop(tool_name, Lower(tool_name), 1)
    \o (IF Escalates(tool_params) THEN <<EscalationSignal>> ELSE <<>>)

\* The prompts, tool names and parameter dicts given to the enricher.
Texts == UNION {[1..n -> Phrases] : n \in 0..MaxPhrases}

ToolNames ==
  {"search", "Run_Shell", "file_writer", "DELETE_user", "execute-code",
   "undelete_http_request"}

ParamItems ==
  {<<"cmd", "ls">>, <<"cmd", "SUDO rm">>, <<"admin_id", "7">>,
   <<"user", "Administrator">>, <<"note", "pseudo">>}

\* A dict has no key twice.
ToolParams ==
  {items \in UNION {[1..n -> ParamItems] : n \in 0..MaxParams} :
     \A a, b \in 1..Len(items) : a # b => items[a][1] # items[b][1]}

PromptCall(text) ==
  [fn |-> "analyze_prompt", pc |-> "call", text |-> text, tool_name |-> "",
   tool_params |-> <<>>, out |-> <<>>]

ToolUseCall(tool_name, tool_params) ==
  [fn |-> "analyze_tool_use", pc |-> "call", text |-> <<>>,
   tool_name |-> tool_name, tool_params |-> tool_params, out |-> <<>>]

AnalyzePrompt ==
  /\ det.fn = "analyze_prompt" /\ det.pc = "call"
  /\ det' = [det EXCEPT !.pc = "returned", !.out = analyze_prompt(det.text)]
  /\ UNCHANGED <<enabled, fail_open, current_trace, span_stack, traces, spans,
                 now, frames, exc, phase, lastExit, requests, lastCheck, mw, ex,
                 lastSignal, lastCall>>

AnalyzeToolUse ==
  /\ det.fn = "analyze_tool_use" /\ det.pc = "call"
  /\ det' = [det EXCEPT !.pc = "returned",
                        !.out = analyze_tool_use(det.tool_name, det.tool_params)]
  /\ UNCHANGED <<enabled, fail_open, current_trace, span_stack, traces, spans,
                 now, frames, exc, phase, lastExit, requests, lastCheck, mw, ex,
                 lastSignal, lastCall>>

----------------------------------------------------------------------------
(* Specifications *)

\* A run enters at most MaxEntries traces and spans and adds at most so many
\* signals, all together.
Budget == Len(traces) + Len(spans) + lastSignal.n < MaxEntries

\* Tasks tracing executions on one guard.
Next ==
  \E t \in Tasks :
    \/ Budget /\ BeginTrace(t) /\ UNCHANGED extVars
    \/ \E e \in RegionOutcomes : EndTrace(t, e) /\ UNCHANGED extVars
    \/ \E r \in IngestOutcomes : IngestReturns(t, r) /\ UNCHANGED extVars
    \/ Budget /\ BeginSpan(t, "tool") /\ UNCHANGED extVars
    \/ \E e \in RegionOutcomes : EndSpan(t, e) /\ UNCHANGED extVars

\* The trace/span lifecycle never reads fail_open; it runs on a guard
\* constructed with the default.
InitDefault == Init /\ fail_open = FALSE

Spec == InitDefault /\ [][Next]_vars

\* Tasks entering and leaving spans and traces on a guard constructed with
\* enabled=False: leaving a trace awaits nothing, and every interleaving of
\* the operations on the span stack and the trace binding is still there.
NextSpans ==
  \E t \in Tasks :
    \/ Budget /\ BeginTrace(t) /\ UNCHANGED extVars
    \/ \E e \in RegionOutcomes : EndTrace(t, e) /\ UNCHANGED extVars
    \/ Budget /\ BeginSpan(t, "tool") /\ UNCHANGED extVars
    \/ \E e \in RegionOutcomes : EndSpan(t, e) /\ UNCHANGED extVars

InitSpans == InitDefault /\ ~enabled

SpecSpans == InitSpans /\ [][NextSpans]_vars

\* Tasks checking tool access on one guard.
NextPolicy ==
  \E t \in Tasks :
    \/ CheckToolAccess(t) /\ UNCHANGED extVars
    \/ \E resp \in Responses : PreInvokeReturns(t, resp) /\ UNCHANGED extVars

SpecPolicy == Init /\ [][NextPolicy]_vars

\* Tasks tracing executions and adding security signals on one guard.
NextSignals ==
  \E t \in Tasks :
    \/ Budget /\ BeginTrace(t) /\ UNCHANGED extVars
    \/ \E e \in RegionOutcomes : EndTrace(t, e) /\ UNCHANGED extVars
    \/ \E r \in IngestOutcomes : IngestReturns(t, r) /\ UNCHANGED extVars
    \/ Budget /\ BeginSpan(t, "tool") /\ UNCHANGED extVars
    \/ \E e \in RegionOutcomes : EndSpan(t, e) /\ UNCHANGED extVars
    \/ Budget /\ AddSecuritySignal(t, "policy_violation", "high")

SpecSignals == InitDefault /\ [][NextSignals]_vars

\* What the policy request ends in while the backend is healthy or degraded
\* or the task is cancelled: an allowing payload or any of the failures.
AllowPayload ==
  [keys |-> {"allow", "decision", "reasons"}, allow |-> TRUE,
   decision |-> "allow", reasons |-> <<>>]

GuardResponses ==
  {r \in Responses : r.kind # "ok" \/ r.data = AllowPayload}

\* Tasks checking tool access on one guard and calling its policy client
\* directly.
NextClient ==
  \E t \in Tasks :
    \/ CheckToolAccess(t) /\ UNCHANGED extVars
    \/ \E resp \in Responses : PreInvokeReturns(t, resp) /\ UNCHANGED extVars
    \/ EvaluatePolicy(t)
    \/ PostInvoke(t)
    \/ \E resp \in GuardResponses : ClientReturns(t, resp)

SpecClient == Init /\ [][NextClient]_vars

\* One invocation that traces its execution and checks tool access on the
\* same guard.
NextGuard ==
  \/ Budget /\ BeginTrace(1) /\ UNCHANGED extVars
  \/ \E e \in RegionOutcomes : EndTrace(1, e) /\ UNCHANGED extVars
  \/ \E r \in IngestOutcomes : IngestReturns(1, r) /\ UNCHANGED extVars
  \/ Budget /\ BeginSpan(1, "tool") /\ UNCHANGED extVars
  \/ \E e \in RegionOutcomes : EndSpan(1, e) /\ UNCHANGED extVars
  \/ CheckToolAccess(1) /\ UNCHANGED extVars
  \/ \E resp \in GuardResponses : PreInvokeReturns(1, resp) /\ UNCHANGED extVars

SpecGuard == Init /\ [][NextGuard]_vars

\* One invocation using every operation of a guard constructed with
\* enabled=False.  No request is ever awaited on such a guard.
InitDisabled == Init /\ ~enabled

NextDisabled ==
  \/ Budget /\ BeginTrace(1) /\ UNCHANGED extVars
  \/ \E e \in RegionOutcomes : EndTrace(1, e) /\ UNCHANGED extVars
  \/ Budget /\ BeginSpan(1, "tool") /\ UNCHANGED extVars
  \/ \E e \in RegionOutcomes : EndSpan(1, e) /\ UNCHANGED extVars
  \/ CheckToolAccess(1) /\ UNCHANGED extVars
  \/ Budget /\ AddSecuritySignal(1, "policy_violation", "high")

SpecDisabled == InitDisabled /\ [][NextDisabled]_vars

\* An agent run with the LangChain callback, then a wrapped crew kicked off,
\* on one guard.
NextMiddleware ==
  \/ \E crew \in Crews : \E coroutine, running_loop \in BOOLEAN :
       KickoffEnter(crew, coroutine, running_loop)
  \/ KickoffCheck
  \/ \E resp \in MiddlewareResponses : KickoffCheckReturns(resp)
  \/ KickoffDecide
  \/ KickoffInvoke
  \/ \E e \in {NoExc, RuntimeFailure, CancelledError, TypeError} : KickoffReturns(e)
  \/ KickoffLeave
  \/ \E r \in IngestOutcomes : KickoffDone(r)
  \/ \E serialized \in Serialized : OnToolStart(serialized)
  \/ \E resp \in MiddlewareResponses : OnToolStartReturns(resp)

SpecMiddleware == Init /\ [][NextMiddleware]_vars

\* The kinds of signal added while a trace is exported.
ExportSignalKinds ==
  {<<"injection_attempt", "high">>, <<"data_exfiltration", "medium">>}

\* One invocation tracing on a guard, and LangfuseExporter.export_trace
\* called once on one of its traces.
InitExport == Init /\ enabled /\ ~fail_open

NextExport ==
  \/ Budget /\ BeginTrace(1) /\ UNCHANGED extVars
  \/ \E e \in RegionOutcomes : EndTrace(1, e) /\ UNCHANGED extVars
  \/ \E r \in IngestOutcomes : IngestReturns(1, r) /\ UNCHANGED extVars
  \/ \E span_type \in {"llm", "tool"} :
       Budget /\ BeginSpan(1, span_type) /\ UNCHANGED extVars
  \/ \E e \in RegionOutcomes : EndSpan(1, e) /\ UNCHANGED extVars
  \/ \E kind \in ExportSignalKinds :
       Budget /\ AddSecuritySignal(1, kind[1], kind[2])
  \/ \E tr \in 1..Len(traces) : ExportTrace(tr)
  \/ \E r \in ExportOutcomes : ExportTraceReturns(r)
  \/ \E r \in ExportOutcomes : ExportSpanReturns(r)
  \/ \E r \in ExportOutcomes : ExportSecuritySignalReturns(r)

SpecExport == InitExport /\ [][NextExport]_vars

\* One call of the enricher on a prompt or on a tool use.
InitDetect ==
  /\ NewGuard /\ enabled /\ ~fail_open
  /\ mw = NoKickoff
  /\ ex = NoExport
  /\ det \in {PromptCall(text) : text \in Texts}
            \cup {ToolUseCall(n, p) : n \in ToolNames, p \in ToolParams}

NextDetect == AnalyzePrompt \/ AnalyzeToolUse

SpecDetect == InitDetect /\ [][NextDetect]_vars

----------------------------------------------------------------------------
(* Properties of the policy gateway, checked under SpecPolicy *)

Checked == lastCheck.n > 0

RequestFailed == lastCheck.resp.kind \in {"transport", "status", "timeout"}

\* The reason text is "AgentGuard unavailable: " followed by the description
\* str(e) of the failure that ended the request, followed by the sentence
\* that tells which way the guard fell.
NamesFailure(reason, kind) ==
  \E rest \in {". Proceeding with fail-open.",
                ". Blocking due to fail-closed policy."} :
    reason = "AgentGuard unavailable: " \o Str(RequestFailure(kind)) \o rest

\* C1: on an enabled, fail-closed guard a check whose request ends in a
\* transport failure, a non-success status or a timeout returns allow=false,
\* decision=deny and a non-empty reasons list whose text names the failure.
C1_FailClosedDenies ==
  (Checked /\ enabled /\ ~fail_open /\ RequestFailed) =>
    /\ lastCheck.exc = NoExc
    /\ lastCheck.result.allow = FALSE
    /\ lastCheck.result.decision = "deny"
    /\ Len(lastCheck.result.reasons) > 0
    /\ \E i \in 1..Len(lastCheck.result.reasons) :
         NamesFailure(lastCheck.result.reasons[i], lastCheck.resp.kind)

C1_Witness ==
  /\ Checked /\ enabled /\ ~fail_open
  /\ lastCheck.resp.kind = "timeout"
  /\ lastCheck.result.decision = "deny"
  /\ lastCheck.sent = 1

\* C2: on an enabled, fail-open guard the same failures return allow=true,
\* decision=warn and a non-empty reasons list naming the failure, never deny.
C2_FailOpenWarns ==
  (Checked /\ enabled /\ fail_open /\ RequestFailed) =>
    /\ lastCheck.exc = NoExc
    /\ lastCheck.result.allow = TRUE
    /\ lastCheck.result.decision = "warn"
    /\ lastCheck.result.decision # "deny"
    /\ Len(lastCheck.result.reasons) > 0
    /\ \E i \in 1..Len(lastCheck.result.reasons) :
         NamesFailure(lastCheck.result.reasons[i], lastCheck.resp.kind)

C2_Witness ==
  /\ Checked /\ enabled /\ fail_open
  /\ lastCheck.resp.kind = "status"
  /\ lastCheck.result.decision = "warn"
  /\ lastCheck.sent = 1

\* C3: on a guard constructed with enabled=False every check returns
\* allow=true, decision=allow and no request is issued, whatever fail_open
\* is and whatever the backend would have answered.
C3_DisabledShortCircuits ==
  ~enabled =>
    /\ \A i \in 1..Len(requests) : requests[i] # PreInvokeRequest
    /\ \A t \in Tasks : phase[t] # "check"
    /\ Checked =>
         /\ lastCheck.sent = 0
         /\ lastCheck.exc = NoExc
         /\ lastCheck.result.allow = TRUE
         /\ lastCheck.result.decision = "allow"

C3_Witness ==
  /\ ~enabled /\ fail_open = TRUE
  /\ lastCheck.n = MaxChecks
  /\ lastCheck.result.decision = "allow"
  /\ lastCheck.sent = 0

\* C10: every PolicyDecision returned by check_tool_access satisfies
\* decision = deny => allow = false.
C10_DenyImpliesNotAllow ==
  (Checked /\ lastCheck.exc = NoExc) =>
    (lastCheck.result.decision = "deny" => lastCheck.result.allow = FALSE)

\* C11: on a successful response the check returns the allow, decision and
\* reasons of the payload, with decision allow when the payload's decision
\* is missing or not a known value; it does not fall back for such a payload.
C11_ParsesPayload ==
  (Checked /\ enabled /\ lastCheck.resp.kind = "ok") =>
    LET data == lastCheck.resp.data IN
    /\ ~lastCheck.fellBack
    /\ lastCheck.result.allow = GetAllow(data)
    /\ lastCheck.result.reasons = GetReasons(data)
    /\ lastCheck.result.decision =
         IF "decision" \in data.keys /\ data.decision \in DecisionValues
         THEN data.decision ELSE "allow"

----------------------------------------------------------------------------
(* Properties of the trace/span lifecycle, checked under Spec *)

SpanIds == 1..Len(spans)
TraceIds == 1..Len(traces)

SpanEnded(s) == spans[s].end_time # NoTime
TraceEnded(tr) == traces[tr].end_time # NoTime

InList(x, list) == \E i \in 1..Len(list) : list[i] = x

\* C4: two traces begun concurrently on one guard never share spans: a
\* span that an invocation begins inside its own trace is in the span list
\* of no other invocation's trace.
C4_TracesShareNoSpans ==
  \A tr \in TraceIds : \A i \in 1..Len(traces[tr].spans) :
    LET s == traces[tr].spans[i] IN
    spans[s].scope # None =>
      /\ spans[s].scope = tr
      /\ spans[s].task = traces[tr].task

\* Only task 1 has used the guard, so begin_span/end_span nest in LIFO order.
SingleTask ==
  /\ \A s \in SpanIds : spans[s].task = 1
  /\ \A tr \in TraceIds : traces[tr].task = 1

OpenSpanFrames(t) == {i \in 1..Len(frames[t]) : frames[t][i].kind = "span"}

\* C5: for LIFO-nested begin_span/end_span from an empty stack, the stack
\* is empty once the outermost span has ended, and every ended span has
\* status completed or error, never running.
C5_LifoSpansClose ==
  SingleTask =>
    /\ (OpenSpanFrames(1) = {} => span_stack = <<>>)
    /\ \A s \in SpanIds :
         SpanEnded(s) => spans[s].status \in {"completed", "error"}

\* C6: an ended trace has end_time >= start_time and status completed or
\* failed, never running; failed carries metadata.error.
C6_TraceClosed ==
  \A tr \in TraceIds :
    TraceEnded(tr) =>
      /\ traces[tr].end_time >= traces[tr].start_time
      /\ traces[tr].status \in {"completed", "failed"}
      /\ (traces[tr].status = "failed" => DictHas(traces[tr].metadata, "error"))

\* C7: a span or trace left by cancellation is closed with end_time set and
\* status error, respectively failed; it is not left running.
C7_CancellationCloses ==
  (lastExit.kind # "none" /\ lastExit.raised = CancelledError) =>
    /\ (lastExit.kind = "span" =>
          /\ SpanEnded(lastExit.id)
          /\ spans[lastExit.id].status = "error")
    /\ (lastExit.kind = "trace" =>
          /\ TraceEnded(lastExit.id)
          /\ traces[lastExit.id].status = "failed")

\* C8: a failure raised inside a span or trace leaves the context manager
\* unchanged: whatever happens while the trace is closed, the caller gets
\* the failure of the region and nothing else in its place.
C8_FailurePropagatesUnchanged ==
  (lastExit.kind # "none" /\ IsException(lastExit.raised)) =>
    lastExit.propagated = lastExit.raised

\* C9: ending a span that is not the top of the span stack is signalled as
\* an error of its own; end_span never silently removes another span.
C9_NonTopEndSignalled ==
  (lastExit.kind = "span" /\ lastExit.popped # lastExit.id) =>
    /\ lastExit.propagated # NoExc
    /\ lastExit.propagated # lastExit.raised

\* C14: begin_trace leaves the span stack empty, also when spans opened
\* earlier on the guard are still open.
C14_BeginTraceResetsStack ==
  [][Len(traces') > Len(traces) => span_stack' = <<>>]_vars

IsIngest(req) == req.endpoint = "/api/v1/observe/traces"

\* C15: when the ingestion request for a trace is issued the trace has
\* end_time set and status completed or failed, never running, and a trace
\* is handed to ingestion at most once.
C15_IngestedAfterFinalization ==
  /\ \A i \in 1..Len(requests) :
       IsIngest(requests[i]) =>
         /\ requests[i].end_time # NoTime
         /\ requests[i].status \in {"completed", "failed"}
  /\ \A i, j \in 1..Len(requests) :
       (IsIngest(requests[i]) /\ IsIngest(requests[j])
          /\ requests[i].trace_id = requests[j].trace_id) => i = j

HandedOff(tr) ==
  \E i \in 1..Len(requests) :
    IsIngest(requests[i]) /\ requests[i].trace_id = tr

\* A trace as ingestion sees it: its own fields and the spans in its list.
TraceContent(tr) ==
  [status |-> traces[tr].status, end_time |-> traces[tr].end_time,
   metadata |-> traces[tr].metadata, spans |-> traces[tr].spans,
   security_signals |-> traces[tr].security_signals,
   span_objects |-> [i \in 1..Len(traces[tr].spans) |-> spans[traces[tr].spans[i]]]]

\* C16: once a trace has been handed to ingestion no operation on the guard
\* changes its fields, its lists or a span in its span list.
C16_ImmutableAfterHandoff ==
  [][\A tr \in TraceIds : HandedOff(tr) => TraceContent(tr)' = TraceContent(tr)]_vars

----------------------------------------------------------------------------
(* Properties of one invocation that traces and checks (SpecGuard) *)

PreInvokeCount ==
  Cardinality({i \in 1..Len(requests) : requests[i] = PreInvokeRequest})

IngestCount ==
  Cardinality({i \in 1..Len(requests) : IsIngest(requests[i])})

\* C13: a degraded backend never crashes the guarded code: a policy check
\* whose request was answered or ended in a transport failure, a non-success
\* status or a timeout returns a PolicyDecision and raises nothing, and a
\* trace whose region returned normally is left normally with status
\* completed whether its ingestion request succeeded or failed.
C13_DegradedNeverCrashes ==
  /\ (Checked /\ lastCheck.resp.kind # "cancelled") =>
       (lastCheck.exc = NoExc /\ lastCheck.result # NoDecision)
  /\ \A t \in Tasks : exc[t] \notin {ConnectError, HTTPStatusError,
                                       TimeoutException, ValueError}
  /\ (lastExit.kind = "trace" /\ lastExit.raised = NoExc
        /\ lastExit.ingest # CancelledError) =>
       /\ lastExit.propagated = NoExc
       /\ traces[lastExit.id].status = "completed"

C13_Witness ==
  /\ enabled /\ Checked /\ RequestFailed
  /\ lastExit.kind = "trace" /\ lastExit.raised = NoExc
  /\ lastExit.ingest # NoExc

\* C17: single attempt: on an enabled guard every policy check has issued
\* exactly one policy request, also when the request failed, and every
\* trace closure has issued exactly one ingestion request, also when the
\* ingestion failed.
C17_SingleAttempt ==
  enabled =>
    /\ Checked => lastCheck.sent = 1
    /\ PreInvokeCount = lastCheck.calls
    /\ IngestCount = Cardinality({tr \in TraceIds : TraceEnded(tr)})
    /\ \A tr \in TraceIds :
         Cardinality({i \in 1..Len(requests) :
                        IsIngest(requests[i]) /\ requests[i].trace_id = tr}) <= 1

C17_Witness ==
  /\ enabled /\ lastCheck.n = MaxChecks /\ RequestFailed
  /\ lastExit.kind = "trace" /\ lastExit.ingest # NoExc
  /\ PreInvokeCount = MaxChecks /\ IngestCount >= 1

----------------------------------------------------------------------------
(* Properties of the middleware (SpecMiddleware) *)

Denied(ds) == \E i \in 1..Len(ds) : ~ds[i].allow

\* C12: a denied decision blocks the guarded action.  The original kickoff
\* is invoked only after every tool was checked and none was refused; once a
\* check returns allow=false the kickoff is never invoked and a
\* PermissionError whose text ends with all reasons of that decision, joined
\* by ", ", propagates out of wrapped_kickoff; when every check has returned
\* and none refuses (decision warn included) the kickoff is invoked, unless
\* asyncio.run refused to start wrapped_kickoff at all.  The
\* tool-start callback raises PermissionError with the reasons exactly when
\* its check returned allow=false.
C12_DeniedBlocks ==
  /\ mw.invoked > 0 =>
       /\ Len(mw.decisions) = Len(Visits(mw.crew))
       /\ ~Denied(mw.decisions)
  /\ Denied(mw.decisions) =>
       LET blocked ==
             PermissionError(
               CrewBlockedText(mw.todo[1].tool_name, mw.todo[1].agent_name,
                               Last(mw.decisions).reasons))
       IN /\ mw.invoked = 0
          /\ mw.pc \in {"leave", "ingest"} => exc[1] = blocked
          /\ mw.pc = "done" => mw.propagated = blocked
  /\ (mw.pc = "done" /\ mw.propagated # LoopRunningError
        /\ Len(mw.decisions) = Len(Visits(mw.crew))
        /\ ~Denied(mw.decisions)) => mw.invoked = 1
  /\ (mw.callback.n > 0 /\ mw.callback.pc = "idle"
        /\ mw.callback.raised # CancelledError) =>
       mw.callback.raised =
         IF mw.callback.decision.allow THEN NoExc
         ELSE PermissionError(
                ToolBlockedText(mw.callback.tool_name,
                                mw.callback.decision.reasons))

----------------------------------------------------------------------------
(* Properties of the Langfuse exporter (SpecExport) *)

\* The requests issued so far are: the trace request, then one observation
\* per span taken from the trace's span list, in list order and carrying the
\* span's parent, then one event per signal taken from its signal list, in
\* list order.  An export that has returned has taken every span and signal
\* of a trace that was closed when it was handed over.
OrderedExport ==
  ex.pc # "idle" =>
    LET trace == traces[ex.trace]
        k == Len(ex.sent)
    IN
    /\ k = 1 + ex.i + ex.j
    /\ ex.i <= Len(trace.spans)
    /\ ex.j <= Len(trace.security_signals)
    /\ \A p \in 1..k :
         IF p = 1
         THEN /\ ex.sent[p].endpoint = "/api/public/traces"
              /\ ex.sent[p].id = trace.trace_id
         ELSE IF p <= 1 + ex.i
         THEN /\ ex.sent[p].endpoint = "/api/public/observations"
              /\ ex.sent[p].type \in {"generation", "span"}
              /\ ex.sent[p].id = trace.spans[p - 1]
              /\ ex.sent[p].parentObservationId =
                   spans[trace.spans[p - 1]].parent_span_id
         ELSE /\ ex.sent[p].endpoint = "/api/public/observations"
              /\ ex.sent[p].type = "event"
              /\ ex.sent[p].id = trace.security_signals[p - 1 - ex.i].id
    /\ (ex.pc = "done" /\ ex.ended) =>
         /\ ex.i = Len(trace.spans)
         /\ ex.j = Len(trace.security_signals)
    /\ ex.pc = "done" => ex.raised = NoExc
    /\ ex.pc = "failed" => ex.raised # NoExc
    /\ ex.pc \in {"trace", "span", "signal"} => ex.raised = NoExc

\* C18: the exporter issues one trace request, then one request per span in
\* list order, each with parentObservationId equal to the span's
\* parent_span_id, then one request per signal in list order, for a trace
\* that is closed when it is exported; a failed request is reported to the
\* caller and nothing is issued after it.
C18_ExportOrder ==
  [][OrderedExport' /\ (ex.pc \in {"failed", "done"} => ex' = ex)]_vars

C18_Witness ==
  /\ ex.pc = "done" /\ ex.ended
  /\ Len(traces[ex.trace].spans) = 2
  /\ Len(ex.sent) = 3
  /\ spans[traces[ex.trace].spans[2]].parent_span_id = traces[ex.trace].spans[1]
  /\ ex.sent[3].parentObservationId = ex.sent[2].id
  /\ ex.sent[2].type = "generation" /\ ex.sent[3].level = "ERROR"

----------------------------------------------------------------------------
(* Properties of the enricher (SpecDetect) *)

PromptAnalysed == det.fn = "analyze_prompt" /\ det.pc = "returned"
ToolUseAnalysed == det.fn = "analyze_tool_use" /\ det.pc = "returned"

CountOf(type) ==
  Cardinality({k \in 1..Len(det.out) : det.out[k].type = type})

MatchedInjections == {i \in 1..Len(INJECTION_PATTERNS) : InjectionSearch(i, det.text)}

IsMatchedPii(pii_type) == PiiSearch(pii_type, det.text)

\* C19: analyze_prompt returns at most one injection_attempt signal of
\* severity high, present iff some injection pattern matches and naming the
\* first that does, followed by one data_exfiltration signal of severity
\* medium for each PII category that matches, in the order of the
\* categories; nothing else; the empty list when nothing matches.
C19_PromptSignals ==
  PromptAnalysed =>
    LET inj == IF MatchedInjections = {} THEN 0 ELSE 1
        cats == SelectSeq(PII_PATTERNS, IsMatchedPii)
    IN
    /\ CountOf("injection_attempt") = inj
    /\ Len(det.out) = inj + Len(cats)
    /\ inj = 1 =>
         /\ det.out[1].type = "injection_attempt"
         /\ det.out[1].severity = "high"
         /\ \E i \in MatchedInjections :
              /\ \A j \in MatchedInjections : i <= j
              /\ det.out[1].description = "Pattern matched: " \o INJECTION_PATTERNS[i]
    /\ \A k \in 1..Len(cats) :
         /\ det.out[inj + k].type = "data_exfiltration"
         /\ det.out[inj + k].severity = "medium"
         /\ det.out[inj + k].description =
              "Detected " \o cats[k] \o " pattern in user input"
    /\ (MatchedInjections = {} /\ Len(cats) = 0) => det.out = <<>>

C19_Witness ==
  /\ PromptAnalysed
  /\ Cardinality(MatchedInjections) >= 3
  /\ Len(det.out) = 3
  /\ det.out[1].type = "injection_attempt"
  /\ det.out[2].title = "Potential EMAIL in Prompt"
  /\ det.out[3].title = "Potential PHONE in Prompt"

\* C20: analyze_tool_use returns at most one tool_abuse signal of severity
\* medium, present iff the lower-cased tool name contains an entry of the
\* dangerous-tool list, and one privilege_escalation signal of severity high
\* iff the stringified parameters contain "sudo" or "admin" in any case;
\* neither depends on the other and tool_abuse comes first.
C20_ToolUseSignals ==
  ToolUseAnalysed =>
    LET abuse == \E i \in 1..Len(DANGEROUS_TOOLS) :
                   Contains(Lower(det.tool_name), DANGEROUS_TOOLS[i])
        params == Lower(StrDict(det.tool_params))
        escalation == Contains(params, "sudo") \/ Contains(params, "admin")
        a == IF abuse THEN 1 ELSE 0
        e == IF escalation THEN 1 ELSE 0
    IN
    /\ Len(det.out) = a + e
    /\ CountOf("tool_abuse") = a
    /\ CountOf("privilege_escalation") = e
    /\ abuse => (det.out[1].type = "tool_abuse" /\ det.out[1].severity = "medium")
    /\ escalation =>
         /\ det.out[a + 1].type = "privilege_escalation"
         /\ det.out[a + 1].severity = "high"

C20_Witness ==
  /\ ToolUseAnalysed
  /\ det.tool_name = "undelete_http_request"
  /\ StrDict(det.tool_params) = "{'user': 'Administrator', 'note': 'pseudo'}"
  /\ Len(det.out) = 2
  /\ det.out[1].title = "Sensitive Tool Usage: undelete_http_request"
  /\ det.out[2].type = "privilege_escalation"

----------------------------------------------------------------------------
(* Properties of begin_span, signals and the span stack *)

InSomeTrace(s) == \E tr \in TraceIds : InList(s, traces[tr].spans)

\* C21: begin_span gives the new span the id on top of the stack as parent
\* (none when the stack is empty), pushes it, and appends it to the end of
\* the current trace's span list when a trace is current; with no trace
\* current it is pushed, appended to no trace, and closes normally without
\* an error.  A span's parent never changes afterwards.
C21_BeginSpanLinks ==
  [][/\ Len(spans') = Len(spans) + 1 =>
          LET id == Len(spans') IN
          /\ spans'[id].parent_span_id =
               (IF span_stack = <<>> THEN None ELSE span_stack[Len(span_stack)])
          /\ span_stack' = Append(span_stack, id)
          /\ IF current_trace # None
             THEN traces' = [traces EXCEPT ![current_trace].spans = Append(@, id)]
             ELSE traces' = traces
     /\ \A s \in SpanIds :
          /\ spans'[s].parent_span_id = spans[s].parent_span_id
          /\ (~SpanEnded(s) /\ SpanEnded(s)' /\ ~InSomeTrace(s)
                /\ lastExit'.raised = NoExc) =>
               /\ spans'[s].status = "completed"
               /\ lastExit'.propagated = NoExc
    ]_vars

C21_Witness ==
  \E s, c \in SpanIds :
    /\ ~InSomeTrace(s) /\ spans[s].status = "completed"
    /\ spans[c].parent_span_id = s
    /\ \E tr \in TraceIds : InList(c, traces[tr].spans)

\* C22: a security signal is appended to exactly one trace, the trace that
\* is current for the invocation that added it, and appears in no other
\* trace's signal list.
C22_SignalInOwnTrace ==
  \A tr \in TraceIds : \A i \in 1..Len(traces[tr].security_signals) :
    LET sig == traces[tr].security_signals[i] IN
    /\ sig.scope # None => (sig.scope = tr /\ sig.task = traces[tr].task)
    /\ \A other \in TraceIds : \A j \in 1..Len(traces[other].security_signals) :
         traces[other].security_signals[j].id = sig.id => (other = tr /\ j = i)

\* C23: every span in a trace's span list that has a parent has it in the
\* same list at an earlier position: a trace's span list is a
\* self-contained forest.
C23_SpanListIsForest ==
  \A tr \in TraceIds : \A i \in 1..Len(traces[tr].spans) :
    LET s == traces[tr].spans[i] IN
    spans[s].parent_span_id # None =>
      \E j \in 1..(i - 1) : traces[tr].spans[j] = spans[s].parent_span_id

\* C24: while a trace is open, every span begun inside its scope is in its
\* span list, also when another trace was begun and ended on the guard in
\* the meantime.
C24_SpansOfOpenTraceRecorded ==
  SingleTask =>
    \A s \in SpanIds :
      spans[s].scope # None => InList(s, traces[spans[s].scope].spans)

\* The spans begun and not yet ended.
OpenSpans == {s \in SpanIds : ~SpanEnded(s)}

\* C25: the length of the span stack is the number of spans begun and not
\* yet ended, under any interleaving; so end_span never pops an empty
\* stack, and the stack is empty whenever no span is open.
C25_StackCountsOpenSpans ==
  /\ Len(span_stack) = Cardinality(OpenSpans)
  /\ lastExit.kind = "span" => lastExit.popped # None
  /\ \A t \in Tasks : exc[t] # IndexError

C25_Witness ==
  /\ lastExit.kind = "span"
  /\ lastExit.popped # lastExit.id
  /\ Len(span_stack) = 1
  /\ Cardinality(OpenSpans) = 1
  /\ \E s \in SpanIds : SpanEnded(s)

\* C26: a guard constructed with enabled=False never issues a request,
\* whatever sequence of trace, span, check and signal operations runs on it;
\* closing a trace skips the ingestion and still stamps end_time, finalizes
\* the status and clears the current-trace binding.
C26_DisabledIssuesNothing ==
  [][~enabled =>
       /\ requests' = <<>>
       /\ \A t \in Tasks : phase'[t] = "run"
       /\ \A tr \in TraceIds :
            (~TraceEnded(tr) /\ TraceEnded(tr)') =>
              /\ traces'[tr].status \in {"completed", "failed"}
              /\ current_trace' = None
    ]_vars

====
